---- MODULE Spec2Model ----
(***************************************************************************)
(* Model of the recommendation core of AI-assistant-for-self-edu:          *)
(*   recommender.py  HybridRecommender.recommend / train_user_preferences  *)
(*   database.py     DatabaseManager (interactions and users tables)       *)
(*   bot.py          RecommendationBot message and callback handlers       *)
(*                                                                         *)
(* Conventions.                                                            *)
(*  - A text value (TEXT column, Python str) is a sequence of one-letter   *)
(*    strings, so that str.split(',') and str.strip() are computed.        *)
(*  - None is Python's None / SQL NULL where a text is expected.           *)
(*  - A user_id of NoUser is the falsy user_id of recommend (None).        *)
(*  - Scores are exact rationals kept as integers: sub-scores in units of  *)
(*    their own unit, hybrid_weight in units of 1/WeightScale, the         *)
(*    pre-boost hybrid score in units of 1/WeightScale and the combined    *)
(*    score in units of 1/(WeightScale*BoostScale) of a sub-score unit.    *)
(*    The rounding of the build's floating point is modelled apart, for   *)
(*    the hybrid score alone (FloatHybridScore).                           *)
(*  - The model starts after construction: the tables of _initialize_db    *)
(*    exist with the columns and CHECK constraints it declares.            *)
(*  - timestamps, titles, descriptions and urls are not part of the state: *)
(*    no modelled decision reads them.                                     *)
(***************************************************************************)
EXTENDS Integers, Sequences, FiniteSets, TLC

VARIABLES
    catalog,       \* rows of events and courses, in get_all_items() order
    popularity,    \* events.popularity, by event id
    interactions,  \* rows of the interactions table, in insertion order
    users,         \* users table: user_id -> [preferences |-> column value]
    tieRank,       \* order np.argsort leaves equal scores in (build-dependent)
    last,          \* the entry point that ran last, its inputs and its result
    threads        \* handler threads: where each is in train_user_preferences

vars == <<catalog, popularity, interactions, users, tieRank, last, threads>>

----------------------------------------------------------------------------
(* Bounds of the model *)

MaxItems == 2
MaxLimit == 2
MaxLog == 1
MaxHist == 2
MaxThreads == 2
FloatBits == 3
FloatFrac == 8

(* Program constants *)

WeightScale == 10
DefaultWeight == 7
BoostScale == 5
DefaultLimit == 5

UserIds == {1, 2}
NoUser == 0
None == <<"None">>

----------------------------------------------------------------------------
(* Python text operations *)

RECURSIVE SplitAcc(_, _, _, _)
SplitAcc(s, i, cur, out) ==
    IF i > Len(s) THEN Append(out, cur)
    ELSE IF s[i] = "," THEN SplitAcc(s, i + 1, <<>>, Append(out, cur))
    ELSE SplitAcc(s, i + 1, Append(cur, s[i]), out)

\* s.split(',')
Split(s) == SplitAcc(s, 1, <<>>, <<>>)

RECURSIVE LStrip(_)
LStrip(t) == IF t # <<>> /\ t[1] = " " THEN LStrip(Tail(t)) ELSE t

RECURSIVE RStrip(_)
RStrip(t) ==
    IF t # <<>> /\ t[Len(t)] = " " THEN RStrip(SubSeq(t, 1, Len(t) - 1)) ELSE t

\* tag.strip()
Strip(t) == RStrip(LStrip(t))

\* set(tag.strip() for tag in tags.split(','))
TagSet(tags) == {Strip(Split(tags)[k]) : k \in 1..Len(Split(tags))}

RECURSIVE SetToList(_)
\* list(a_set): some fixed order of the elements
SetToList(S) ==
    IF S = {} THEN <<>>
    ELSE LET x == CHOOSE y \in S : \A z \in S : Len(y) <= Len(z)
         IN <<x>> \o SetToList(S \ {x})

ListToSet(l) == {l[k] : k \in 1..Len(l)}

----------------------------------------------------------------------------
(* The store: database.py *)

ItemTypes == {"event", "course"}

\* a CHECK constraint that also admits 'recommendation'
AllowedWithRecommendation == {"view", "like", "dislike", "bookmark", "recommendation"}

\* CHECK(interaction_type IN ('view', 'like', 'dislike', 'bookmark'))
AllowedInteractionTypes == {"view", "like", "dislike", "bookmark"}

\* the kinds of the specification's Interaction record
InteractionKinds == AllowedInteractionTypes \cup {"recommendation"}

\* the tables that have a popularity column
TablesWithPopularity == {"event"}

\* the users.preferences column
SqlNull == [sql |-> "NULL"]
JsonDumps(d) == [sql |-> "TEXT", valid |-> TRUE, doc |-> d]
\* a text json.loads rejects: a dump of preferences cut short, with what a
\* lenient reader would make of it
MalformedText ==
    [sql |-> "TEXT", valid |-> FALSE, doc |-> [preferred_tags |-> <<<<"a">>, <<"b">>>>]]

EmptyDict == [k \in {} |-> <<>>]
PrefDict(tagList) == [preferred_tags |-> tagList]

\* dict.get(key): None when the key is missing
DictGet(d, key) == IF key \in DOMAIN d THEN d[key] ELSE None

Interaction(user_id, item_id, item_type, interaction_type) ==
    [user_id |-> user_id, item_id |-> item_id, item_type |-> item_type,
     interaction_type |-> interaction_type]

\* INSERT INTO interactions passes the table's CHECK constraints
InsertAccepted(item_type, interaction_type) ==
    /\ item_type \in ItemTypes
    /\ interaction_type \in AllowedInteractionTypes

\* UPDATE {table} SET popularity = popularity + 1 names a column of the table
PopularityUpdateAccepted(item_type, interaction_type) ==
    interaction_type \in {"like", "bookmark"} => item_type \in TablesWithPopularity

\* log_interaction: the new tables and the returned flag.  A statement that
\* raises sqlite3.Error leaves the transaction uncommitted and returns False.
log_interaction(db, user_id, item_id, item_type, interaction_type) ==
    IF /\ InsertAccepted(item_type, interaction_type)
       /\ PopularityUpdateAccepted(item_type, interaction_type)
    THEN [ok |-> TRUE,
          interactions |-> Append(db.interactions,
                              Interaction(user_id, item_id, item_type, interaction_type)),
          popularity |->
              IF interaction_type \in {"like", "bookmark"} /\ item_id \in DOMAIN db.popularity
              THEN [db.popularity EXCEPT ![item_id] = @ + 1]
              ELSE db.popularity,
          users |-> db.users]
    ELSE [ok |-> FALSE, interactions |-> db.interactions,
          popularity |-> db.popularity, users |-> db.users]

\* a profile read that ignores the stored profile once the user has rows in
\* the interactions table
get_user_preferences_unless_active(db, user_id) ==
    IF \E k \in 1..Len(db.interactions) : db.interactions[k].user_id = user_id
    THEN EmptyDict
    ELSE IF user_id \in DOMAIN db.users /\ db.users[user_id].preferences # SqlNull
    THEN IF db.users[user_id].preferences.valid
         THEN db.users[user_id].preferences.doc
         ELSE EmptyDict
    ELSE EmptyDict

\* a profile read that does not reject an invalid text
get_user_preferences_lenient(db, user_id) ==
    IF user_id \in DOMAIN db.users /\ db.users[user_id].preferences # SqlNull
    THEN db.users[user_id].preferences.doc
    ELSE EmptyDict

\* get_user_preferences: {} unless the row holds a parseable JSON text
get_user_preferences(db, user_id) ==
    IF user_id \in DOMAIN db.users /\ db.users[user_id].preferences # SqlNull
    THEN IF db.users[user_id].preferences.valid
         THEN db.users[user_id].preferences.doc
         ELSE EmptyDict
    ELSE EmptyDict

\* update_user_preferences: INSERT OR IGNORE the row, then overwrite the column
update_user_preferences(db, user_id, preferences) ==
    [ok |-> TRUE,
     interactions |-> db.interactions,
     popularity |-> db.popularity,
     users |-> [u \in DOMAIN db.users \cup {user_id} |->
                   IF u = user_id THEN [preferences |-> JsonDumps(preferences)]
                   ELSE db.users[u]]]

\* the store's tables as one value
Db(i, p, u) == [interactions |-> i, popularity |-> p, users |-> u]

CatalogItem(id, item_type, tags) == [id |-> id, item_type |-> item_type, tags |-> tags]
NotFound == [not_found |-> TRUE]

\* get_all_items() -> sequence<CatalogItem>
get_all_items(cat) == cat

\* get_item(id, type) -> CatalogItem | not-found
get_item(cat, item_id, item_type) ==
    IF \E k \in 1..Len(cat) : cat[k].id = item_id /\ cat[k].item_type = item_type
    THEN cat[CHOOSE k \in 1..Len(cat) :
                 cat[k].id = item_id /\ cat[k].item_type = item_type]
    ELSE NotFound

\* get_user_interactions(user_id) -> sequence<Interaction>
get_user_interactions(db, user_id) ==
    SelectSeq(db.interactions, LAMBDA r : r.user_id = user_id)

----------------------------------------------------------------------------
(* The scorer and ranker: recommender.py *)

Zeros(n) == [i \in 1..n |-> 0]

\* semantic_similarity: the embedding of the empty text is the zero vector, whose
\* cosine similarity with every text is 0; otherwise the model's similarities
semantic_similarity(query, modelSem, n) ==
    IF query = <<>> THEN Zeros(n) ELSE modelSem

\* keyword_relevance: the model's scores, or zeros when inference raises
keyword_relevance(modelKw, n) ==
    IF modelKw.fails THEN Zeros(n) ELSE modelKw.scores

\* hybrid_weight * semantic_scores + (1 - hybrid_weight) * keyword_scores
HybridScores(hybrid_weight, sem, kw) ==
    [i \in DOMAIN sem |-> hybrid_weight * sem[i] + (WeightScale - hybrid_weight) * kw[i]]

\* a boost that stops growing after the first common tag
BoostedCapped(score, common_tags) ==
    IF common_tags # {} THEN score * (BoostScale + 1) ELSE score * BoostScale

\* hybrid_scores[i] *= 1 + 0.2 * len(common_tags), in units of 1/BoostScale
Boosted(score, common_tags) ==
    IF common_tags # {}
    THEN score * (BoostScale + Cardinality(common_tags))
    ELSE score * BoostScale

\* the preference branch of recommend: the combined scores, or "raised" when
\* item['tags'].split raises on a None
CombinedScores(items, prefs, user_id, hybrid) ==
    IF user_id # NoUser
       /\ DictGet(prefs, "preferred_tags") # None
       /\ DictGet(prefs, "preferred_tags") # <<>>
    THEN IF \E i \in 1..Len(items) : items[i].tags = None
         THEN [raised |-> TRUE]
         ELSE [raised |-> FALSE,
               scores |-> [i \in 1..Len(items) |->
                   Boosted(hybrid[i],
                           ListToSet(prefs.preferred_tags) \cap TagSet(items[i].tags))]]
    ELSE [raised |-> FALSE,
          scores |-> [i \in 1..Len(items) |-> hybrid[i] * BoostScale]]

IndexPermutations(n) ==
    {p \in [1..n -> 1..n] : \A i, j \in 1..n : p[i] = p[j] => i = j}

\* index i sorts before index j: by score, equal scores by rank
SortsBefore(scores, rank, i, j) ==
    \/ scores[i] < scores[j]
    \/ scores[i] = scores[j] /\ rank[i] < rank[j]

\* np.argsort(scores): ascending; equal scores stay in the order rank gives them
ArgSort(scores, rank) ==
    [k \in 1..Len(scores) |->
        CHOOSE i \in 1..Len(scores) :
            Cardinality({j \in 1..Len(scores) : SortsBefore(scores, rank, j, i)}) = k - 1]

\* a[::-1]
Reversed(a) == [i \in 1..Len(a) |-> a[Len(a) + 1 - i]]

\* the indices left in ascending order
SortedIndicesAscending(scores, rank) == ArgSort(scores, rank)

\* np.argsort(hybrid_scores)[::-1]
SortedIndices(scores, rank) == Reversed(ArgSort(scores, rank))

\* no truncation
TruncateNothing(a, limit) == a

\* a[:limit], for a positive limit
Truncate(a, limit) == SubSeq(a, 1, IF limit < Len(a) THEN limit ELSE Len(a))

Recommendation(item, score, sem, kw) ==
    [type |-> item.item_type, id |-> item.id, score |-> score, tags |-> item.tags,
     semantic_score |-> sem, keyword_score |-> kw]

RECURSIVE LogRecommendations(_, _, _)
\* the log_interaction calls of the result loop, for a truthy user_id
LogRecommendations(db, user_id, recs) ==
    IF recs = <<>> THEN db
    ELSE LET r == log_interaction(db, user_id, recs[1].id, recs[1].type, "recommendation")
         IN LogRecommendations(Db(r.interactions, r.popularity, r.users),
                               user_id, Tail(recs))

\* recommend: the returned list and the store after the call
recommend(db, cat, rank, query, modelSem, modelKw, user_id, limit, hybrid_weight) ==
    LET items == get_all_items(cat)
        n == Len(items)
        sem == semantic_similarity(query, modelSem, n)
        kw == keyword_relevance(modelKw, n)
        hybrid == HybridScores(hybrid_weight, sem, kw)
        prefs == IF user_id # NoUser THEN get_user_preferences(db, user_id) ELSE EmptyDict
        combined == CombinedScores(items, prefs, user_id, hybrid)
    IN  IF items = <<>>
        THEN [ret |-> <<>>, db |-> db, sem |-> <<>>, kw |-> <<>>, raised |-> FALSE]
        ELSE IF combined.raised
        THEN [ret |-> <<>>, db |-> db, sem |-> sem, kw |-> kw, raised |-> TRUE]
        ELSE LET top == Truncate(SortedIndices(combined.scores, rank), limit)
                 recs == [k \in 1..Len(top) |->
                            Recommendation(items[top[k]], combined.scores[top[k]],
                                           sem[top[k]], kw[top[k]])]
             IN [ret |-> recs,
                 db |-> IF user_id # NoUser THEN LogRecommendations(db, user_id, recs)
                        ELSE db,
                 sem |-> sem, kw |-> kw, raised |-> FALSE]

\* what may raise inside one recommend call: nothing, a store read, the
\* embedding model, or the k-th log_interaction call of the result loop
NoFault == [at |-> "none", k |-> 0]
RecommendFaults ==
    {NoFault}
        \cup {[at |-> a, k |-> 0] :
                 a \in {"get_all_items", "semantic_similarity", "get_user_preferences"}}
        \cup {[at |-> "log_interaction", k |-> k] : k \in 1..MaxLimit}

\* a call whose exception leaves recommend
RecommendEscaped(d, sem, kw, profile_read) ==
    [ret |-> <<>>, db |-> d, sem |-> sem, kw |-> kw, raised |-> TRUE,
     escaped |-> TRUE, profile_read |-> profile_read]

\* the `except Exception` of recommend: log the error, return []
RecommendFailed(d, sem, kw, profile_read) ==
    [ret |-> <<>>, db |-> d, sem |-> sem, kw |-> kw, raised |-> TRUE,
     escaped |-> FALSE, profile_read |-> profile_read]

\* recommend when the call named by fault raises once control reaches it.  Each
\* log_interaction call commits on its own: the rows logged for the items
\* before the k-th stay in the table when the k-th call raises.
recommend_with_faults(d, cat, rank, query, modelSem, modelKw, user_id, limit, hybrid_weight, fault) ==
    LET r == recommend(d, cat, rank, query, modelSem, modelKw, user_id, limit,
                       hybrid_weight)
        reads == user_id # NoUser /\ cat # <<>>
        done == [ret |-> r.ret, db |-> r.db, sem |-> r.sem, kw |-> r.kw,
                 raised |-> r.raised, escaped |-> FALSE, profile_read |-> reads]
    IN  IF fault.at = "none" THEN done
        ELSE IF fault.at = "get_all_items" THEN RecommendFailed(d, <<>>, <<>>, FALSE)
        ELSE IF cat = <<>> THEN done
        ELSE IF fault.at = "semantic_similarity"
        THEN RecommendFailed(d, <<>>, <<>>, FALSE)
        ELSE IF user_id = NoUser THEN done
        ELSE IF fault.at = "get_user_preferences"
        THEN RecommendFailed(d, r.sem, r.kw, TRUE)
        ELSE IF r.raised \/ fault.k > Len(r.ret) THEN done
        ELSE RecommendFailed(
                 LogRecommendations(d, user_id, SubSeq(r.ret, 1, fault.k - 1)),
                 r.sem, r.kw, TRUE)

----------------------------------------------------------------------------
(* The learner: recommender.py *)

\* filters that let another kind through
PositiveKindsWithDislike == {"like", "bookmark", "dislike"}
PositiveKindsWithRecommendation == {"like", "bookmark", "recommendation"}

\* item['interaction_type'] in ('like', 'bookmark')
PositiveKinds == {"like", "bookmark"}

PositiveItems(history) ==
    SelectSeq(history, LAMBDA r : r.interaction_type \in PositiveKinds)

\* the tags one positive interaction adds: `if item and item['tags']`
ItemTags(cat, item_id, item_type) ==
    LET item == get_item(cat, item_id, item_type)
    IN IF item # NotFound /\ item.tags # None /\ item.tags # <<>>
       THEN TagSet(item.tags)
       ELSE {}

\* the loop over positive_items: preferred_tags.update(tags)
PreferredTags(cat, positive_items) ==
    UNION {ItemTags(cat, positive_items[k].item_id, positive_items[k].item_type) :
              k \in 1..Len(positive_items)}

\* preferences merged into the stored ones instead of replacing them
LearnedPreferencesMerged(cat, positive_items, old) ==
    PrefDict(SetToList(PreferredTags(cat, positive_items)
                           \cup (IF "preferred_tags" \in DOMAIN old
                                 THEN ListToSet(old.preferred_tags) ELSE {})))

\* the preferences train_user_preferences persists
LearnedPreferences(cat, positive_items, old) ==
    PrefDict(SetToList(PreferredTags(cat, positive_items)))

\* train_user_preferences: the returned flag and the store after the call
train_user_preferences(db, cat, user_id) ==
    LET history == get_user_interactions(db, user_id)
        positive_items == PositiveItems(history)
    IN  IF history = <<>> THEN [ret |-> FALSE, db |-> db]
        ELSE IF positive_items = <<>> THEN [ret |-> FALSE, db |-> db]
        ELSE LET w == update_user_preferences(db, user_id,
                          LearnedPreferences(cat, positive_items,
                                             get_user_preferences(db, user_id)))
             IN [ret |-> TRUE, db |-> Db(w.interactions, w.popularity, w.users)]

\* update_user_preferences when a statement raises sqlite3.Error: the error is
\* logged, nothing is committed and False is returned
update_user_preferences_failed(d, user_id, preferences) ==
    [ok |-> FALSE, interactions |-> d.interactions, popularity |-> d.popularity,
     users |-> d.users]

\* what may fail inside one train_user_preferences call: nothing, a store read
\* that raises, or the profile write, which either raises or hits an
\* sqlite3.Error that update_user_preferences turns into False
TrainFaults ==
    {[at |-> a, k |-> 0] :
        a \in {"none", "get_user_interactions", "get_item",
               "update_user_preferences raises", "update_user_preferences error"}}

\* the `except Exception` of train_user_preferences: log the error, return False
TrainFailed(d) == [ret |-> FALSE, db |-> d, store_failed |-> TRUE]

\* train_user_preferences when the call named by fault fails once control
\* reaches it; the flag update_user_preferences returns is not looked at
train_user_preferences_with_faults(d, cat, user_id, fault) ==
    LET history == get_user_interactions(d, user_id)
        positive_items == PositiveItems(history)
        r == train_user_preferences(d, cat, user_id)
    IN  IF fault.at = "get_user_interactions" THEN TrainFailed(d)
        ELSE IF history = <<>> \/ positive_items = <<>> \/ fault.at = "none"
        THEN [ret |-> r.ret, db |-> r.db, store_failed |-> FALSE]
        ELSE IF fault.at \in {"get_item", "update_user_preferences raises"}
        THEN TrainFailed(d)
        ELSE LET w == update_user_preferences_failed(d, user_id,
                          LearnedPreferences(cat, positive_items,
                                             get_user_preferences(d, user_id)))
             IN [ret |-> TRUE, db |-> Db(w.interactions, w.popularity, w.users),
                 store_failed |-> TRUE]

----------------------------------------------------------------------------
(* Inputs *)

TextA == <<"a">>
TextB == <<"b">>
TextC == <<"c">>
TagsAB == <<"a", ",", " ", "b">>
TagsA == <<"a">>
TagsBC == <<" ", "b", ",", "c", " ">>
TagsEmpty == <<>>

\* the rows the catalogs are drawn from; an event and a course may share an id
Pool ==
    << CatalogItem(1, "event", TagsAB),
       CatalogItem(1, "course", TagsA),
       CatalogItem(2, "event", TagsBC),
       CatalogItem(2, "course", None),
       CatalogItem(3, "event", TagsEmpty) >>

\* the catalogs: the runs of at most MaxItems consecutive rows of Pool
Catalogs ==
    {SubSeq(Pool, w[1], w[2]) :
        w \in {x \in (1..(Len(Pool) + 1)) \X (0..Len(Pool)) :
                  x[2] >= x[1] - 1 /\ x[2] - x[1] + 1 <= MaxItems}}

EventIds(cat) == {cat[k].id : k \in {i \in 1..Len(cat) : cat[i].item_type = "event"}}

Queries == {<<>>, <<"q">>}
Limits == 1..MaxLimit
HybridWeights == {0, DefaultWeight, WeightScale}
\* cosine similarities lie in [-1, 1], sigmoid outputs in [0, 1]
SemValues == {0 - 1, 0, 1}
KwValues == {0, 1}

\* what the embedding model yields: it is not consulted for the empty query
ModelSems(query, n) == IF query = <<>> THEN {Zeros(n)} ELSE [1..n -> SemValues]
ModelKws(n) ==
    {[fails |-> TRUE, scores |-> Zeros(n)]}
        \cup {[fails |-> FALSE, scores |-> v] : v \in [1..n -> KwValues]}

----------------------------------------------------------------------------
(* The entry points.  _handle_start and _handle_history only call store     *)
(* methods that database.py does not define (update_user, get_user_history)  *)
(* and are not modelled.                                                     *)

db == Db(interactions, popularity, users)

SetDb(d) ==
    /\ interactions' = d.interactions
    /\ popularity' = d.popularity
    /\ users' = d.users

RecCall(query, user_id, limit, hybrid_weight, r) ==
    [query |-> query, user_id |-> user_id, limit |-> limit,
     hybrid_weight |-> hybrid_weight, semantic_scores |-> r.sem,
     keyword_scores |-> r.kw, ret |-> r.ret, raised |-> r.raised]

\* HybridRecommender.recommend, called directly, with a call that may raise
RecommendFault(query, modelSem, modelKw, user_id, limit, hybrid_weight, fault) ==
    LET r == recommend_with_faults(db, catalog, tieRank, query, modelSem, modelKw,
                                   user_id, limit, hybrid_weight, fault)
    IN /\ SetDb(r.db)
       /\ last' = [op |-> "recommend", pre |-> db,
                   rec |-> RecCall(query, user_id, limit, hybrid_weight, r)
                             @@ [fault |-> fault, escaped |-> r.escaped,
                                 profile_read |-> r.profile_read,
                                 keyword_failed |-> modelKw.fails]]
       /\ UNCHANGED <<catalog, tieRank, threads>>

\* HybridRecommender.recommend, called directly
Recommend(query, modelSem, modelKw, user_id, limit, hybrid_weight) ==
    RecommendFault(query, modelSem, modelKw, user_id, limit, hybrid_weight, NoFault)

\* HybridRecommender.train_user_preferences, called directly
Train(user_id) ==
    LET r == train_user_preferences(db, catalog, user_id)
    IN /\ SetDb(r.db)
       /\ last' = [op |-> "train_user_preferences", pre |-> db,
                   train |-> [user_id |-> user_id, ret |-> r.ret]]
       /\ UNCHANGED <<catalog, tieRank, threads>>

\* HybridRecommender.train_user_preferences, called directly, on a store that
\* may fail
TrainFault(user_id, fault) ==
    LET r == train_user_preferences_with_faults(db, catalog, user_id, fault)
    IN /\ SetDb(r.db)
       /\ last' = [op |-> "train_user_preferences", pre |-> db,
                   train |-> [user_id |-> user_id, ret |-> r.ret, fault |-> fault,
                              store_failed |-> r.store_failed]]
       /\ UNCHANGED <<catalog, tieRank, threads>>

\* str(id) and int(text) on the ids of Pool
Digits == <<"1", "2", "3">>
IdText(id) == Digits[id]
IsDigits(text) == \E i \in 1..Len(Digits) : Digits[i] = text
ParseInt(text) == CHOOSE i \in 1..Len(Digits) : Digits[i] = text

\* callback_data, as the parts that '_' separates
FeedbackActions == {"like", "dislike", "bookmark"}
\* the buttons of a catalog: its rows' feedback buttons, the buttons of one row
\* that is no longer (or not) in it, the other buttons, and a like_ with no id
StaleKey == <<2, "event">>
CallbackData(cat) ==
    {<<a, k[2], IdText(k[1])>> :
        a \in FeedbackActions,
        k \in {<<cat[i].id, cat[i].item_type>> : i \in 1..Len(cat)} \cup {StaleKey}}
        \cup {<<"feedback", "good">>, <<"feedback", "bad">>,
              <<"pref", "tags">>, <<"pref", "reset">>, <<"like", "event">>}

\* RecommendationBot._handle_text: recommend(query, user_id, limit=5).
\* (log_user_query is not a method of DatabaseManager; the query history it
\* would keep is not part of the state.)
HandleText(user_id, query, modelSem, modelKw) ==
    LET r == recommend(db, catalog, tieRank, query, modelSem, modelKw,
                       user_id, DefaultLimit, DefaultWeight)
    IN /\ SetDb(r.db)
       /\ last' = [op |-> "_handle_text", pre |-> db,
                   rec |-> RecCall(query, user_id, DefaultLimit, DefaultWeight, r)]
       /\ UNCHANGED <<catalog, tieRank, threads>>

\* the like_/dislike_/bookmark_ branch: log the interaction, then retrain
CallbackFeedback(d, cat, user_id, data) ==
    IF Len(data) # 3 \/ ~IsDigits(data[3])
    THEN [db |-> d, raised |-> TRUE]
    ELSE LET l == log_interaction(d, user_id, ParseInt(data[3]), data[2], data[1])
             t == train_user_preferences(Db(l.interactions, l.popularity, l.users),
                                         cat, user_id)
         IN [db |-> t.db, raised |-> FALSE, logged |-> l.ok,
             train |-> [user_id |-> user_id, ret |-> t.ret]]

\* the pref_reset branch: update_user_preferences(user_id, {})
CallbackPrefReset(d, user_id) ==
    LET w == update_user_preferences(d, user_id, EmptyDict)
    IN [db |-> Db(w.interactions, w.popularity, w.users), raised |-> FALSE]

\* a reply branch that also clears the preferences
CallbackReplyResets(d, user_id) == CallbackPrefReset(d, user_id)

\* feedback_good, feedback_bad, pref_tags and unmatched data: replies only
CallbackReply(d, user_id) == [db |-> d, raised |-> FALSE]

handle_callback(d, cat, user_id, data) ==
    IF data[1] \in FeedbackActions THEN CallbackFeedback(d, cat, user_id, data)
    ELSE IF data = <<"pref", "reset">> THEN CallbackPrefReset(d, user_id)
    ELSE CallbackReply(d, user_id)

\* RecommendationBot._handle_callback
HandleCallback(user_id, data) ==
    LET r == handle_callback(db, catalog, user_id, data)
    IN /\ Len(r.db.interactions) <= MaxLog
       /\ SetDb(r.db)
       /\ last' = [op |-> "_handle_callback", pre |-> db, user_id |-> user_id,
                   data |-> data, out |-> [f \in DOMAIN r \ {"db"} |-> r[f]]]
       /\ UNCHANGED <<catalog, tieRank, threads>>

\* RecommendationBot._handle_preferences: shows the stored preferences
HandlePreferences(user_id) ==
    /\ last' = [op |-> "_handle_preferences", pre |-> db, user_id |-> user_id,
                shown |-> DictGet(get_user_preferences(db, user_id), "preferred_tags")]
    /\ UNCHANGED <<catalog, popularity, interactions, users, tieRank, threads>>

\* telebot runs each handler on a thread of its worker pool.  A thread that is
\* not inside train_user_preferences is idle.
Threads == 1..MaxThreads
IdleThreads == [t \in Threads |-> [pc |-> "idle", positive_items |-> <<>>]]

----------------------------------------------------------------------------
(* The whole program: the bot's handlers on a store that starts empty *)

InitLast == [op |-> "init"]

NoUsers == [u \in {} |-> [preferences |-> SqlNull]]

\* the catalogs of the whole-program runs: none, one event, one course
BotCatalogs == {SubSeq(Pool, 1, 0), SubSeq(Pool, 1, 1), SubSeq(Pool, 2, 2)}

Init ==
    /\ catalog \in BotCatalogs
    /\ popularity = [e \in EventIds(catalog) |-> 0]
    /\ interactions = <<>>
    /\ users = NoUsers
    /\ tieRank \in IndexPermutations(Len(catalog))
    /\ last = InitLast
    /\ threads = IdleThreads

TextMessage ==
    \E user_id \in UserIds, query \in Queries :
        \E modelSem \in ModelSems(query, Len(catalog)), modelKw \in ModelKws(Len(catalog)) :
            HandleText(user_id, query, modelSem, modelKw)

CallbackQuery ==
    \E user_id \in UserIds, data \in CallbackData(catalog) : HandleCallback(user_id, data)

PreferencesCommand ==
    \E user_id \in UserIds : HandlePreferences(user_id)

Next == TextMessage \/ CallbackQuery \/ PreferencesCommand

Spec == Init /\ [][Next]_vars

----------------------------------------------------------------------------
(* One recommend call on a store in any state the program leaves it in *)

\* the preferences column values the program writes (or never wrote); a row
\* may also hold a text that is not JSON, written by another client
\* of the database file
StoredPreferences ==
    {JsonDumps(EmptyDict)}
        \cup {JsonDumps(PrefDict(l)) : l \in {<<>>, <<TextA, TextB>>, <<TextB, TextC>>}}

InitRank ==
    /\ catalog \in Catalogs
    /\ popularity = [e \in EventIds(catalog) |-> 0]
    /\ interactions = <<>>
    /\ users \in {NoUsers}
           \cup {(1 :> [preferences |-> c]) :
                    c \in StoredPreferences \cup {MalformedText}}
    /\ tieRank \in IndexPermutations(Len(catalog))
    /\ last = InitLast
    /\ threads = IdleThreads

\* one call per behaviour: the call is a function of the store and its inputs
RecommendCall ==
    /\ last = InitLast
    /\ \E user_id \in {NoUser, 1}, query \in Queries, limit \in Limits,
          hybrid_weight \in HybridWeights :
        \E modelSem \in ModelSems(query, Len(catalog)), modelKw \in ModelKws(Len(catalog)) :
            Recommend(query, modelSem, modelKw, user_id, limit, hybrid_weight)

\* the same call when one of the calls it makes raises (with the default
\* hybrid_weight and the keyword model failing, as it does in this build: the
\* AutoModel output has no logits)
RecommendFaultCall ==
    /\ last = InitLast
    /\ \E user_id \in {NoUser, 1}, query \in Queries, limit \in Limits,
          fault \in RecommendFaults \ {NoFault} :
        \E modelSem \in ModelSems(query, Len(catalog)) :
            RecommendFault(query, modelSem,
                           [fails |-> TRUE, scores |-> Zeros(Len(catalog))],
                           user_id, limit, DefaultWeight, fault)

NextRank == RecommendCall \/ RecommendFaultCall

SpecRank == InitRank /\ [][NextRank]_vars

----------------------------------------------------------------------------
(* One train_user_preferences call on any interaction history.  The history  *)
(* is what get_user_interactions returns: any sequence of Interaction        *)
(* records, of every kind of the specification's data model.  The stored     *)
(* profile may name tags the catalog no longer has (the catalog is rewritten *)
(* by add_event and add_course).                                             *)

RECURSIVE SeqsUpTo(_, _)
SeqsUpTo(S, n) ==
    IF n = 0 THEN {<<>>}
    ELSE SeqsUpTo(S, n - 1)
            \cup {Append(h, x) : h \in {g \in SeqsUpTo(S, n - 1) : Len(g) = n - 1}, x \in S}

HistoryEntries(cat) ==
    {Interaction(u, k[1], k[2], kind) :
        u \in UserIds,
        k \in {<<cat[i].id, cat[i].item_type>> : i \in 1..Len(cat)} \cup {StaleKey},
        kind \in InteractionKinds}

PopularityOf(cat, history) ==
    [e \in EventIds(cat) |->
        Cardinality({k \in 1..Len(history) :
            /\ history[k].interaction_type \in {"like", "bookmark"}
            /\ history[k].item_type = "event"
            /\ history[k].item_id = e})]

InitLearner ==
    /\ catalog \in Catalogs
    /\ interactions \in SeqsUpTo(HistoryEntries(catalog), MaxHist)
    /\ popularity = PopularityOf(catalog, interactions)
    /\ users \in {NoUsers}
           \cup {(1 :> [preferences |-> JsonDumps(PrefDict(l))]) :
                    l \in {<<TextA, TextB>>, <<TextB, TextC>>}}
    /\ tieRank \in {[i \in 1..Len(catalog) |-> i]}
    /\ last = InitLast
    /\ threads = IdleThreads

\* one call per behaviour: the call is a function of the store and its inputs
TrainCall ==
    /\ last = InitLast
    /\ \E user_id \in UserIds : Train(user_id)

NextLearner == TrainCall

SpecLearner == InitLearner /\ [][NextLearner]_vars

----------------------------------------------------------------------------
(* One train_user_preferences call on a store that may fail *)

TrainFaultCall ==
    /\ last = InitLast
    /\ \E user_id \in UserIds, fault \in TrainFaults : TrainFault(user_id, fault)

NextLearnerFault == TrainFaultCall

SpecLearnerFault == InitLearner /\ [][NextLearnerFault]_vars

----------------------------------------------------------------------------
(* Two recommend calls with the same inputs.  Between them the interactions  *)
(* table may grow (a view, a like, a dislike or a bookmark logged for the    *)
(* user); the catalog and the users table stay as they are.  The models are  *)
(* functions of the query and the texts (their weights do not change), and   *)
(* np.argsort is a function of its input: the second call sees the scores    *)
(* and the tie order of the first.                                           *)

InitRepeat ==
    /\ catalog \in Catalogs
    /\ popularity = [e \in EventIds(catalog) |-> 0]
    /\ interactions = <<>>
    /\ users \in {NoUsers}
           \cup {(1 :> [preferences |-> JsonDumps(PrefDict(l))]) :
                    l \in {<<TextA, TextB>>, <<TextB, TextC>>}}
    /\ tieRank = [i \in 1..Len(catalog) |-> i]
    /\ last = InitLast
    /\ threads = IdleThreads

FirstCall ==
    /\ last = InitLast
    /\ \E user_id \in {NoUser, 1}, query \in Queries, limit \in Limits :
        \E modelSem \in ModelSems(query, Len(catalog)), modelKw \in ModelKws(Len(catalog)) :
            Recommend(query, modelSem, modelKw, user_id, limit, DefaultWeight)

\* one log_interaction call between the two recommend calls
LogBetween ==
    /\ last.op = "recommend"
    /\ interactions = last.pre.interactions
    /\ \E k \in 1..Len(catalog), kind \in AllowedInteractionTypes :
          LET l == log_interaction(db, 1, catalog[k].id, catalog[k].item_type, kind)
          IN /\ l.ok
             /\ SetDb(Db(l.interactions, l.popularity, l.users))
    /\ UNCHANGED <<catalog, tieRank, last, threads>>

SecondCall ==
    /\ last.op = "recommend"
    /\ LET c == last.rec
           r == recommend(db, catalog, tieRank, c.query, c.semantic_scores,
                          [fails |-> c.keyword_failed, scores |-> c.keyword_scores],
                          c.user_id, c.limit, c.hybrid_weight)
       IN /\ SetDb(r.db)
          /\ last' = [op |-> "recommend again", pre |-> db, first |-> c,
                      rec |-> RecCall(c.query, c.user_id, c.limit, c.hybrid_weight, r)]
    /\ UNCHANGED <<catalog, tieRank, threads>>

NextRepeat == FirstCall \/ LogBetween \/ SecondCall

SpecRepeat == InitRepeat /\ [][NextRepeat]_vars

----------------------------------------------------------------------------
(* Concurrent feedback callbacks of one user.  Each handler thread calls     *)
(* log_interaction and train_user_preferences; every store call opens its    *)
(* own connection and commits on its own, so a store call is one step and    *)
(* the calls of different threads interleave.  train_user_preferences holds  *)
(* what get_user_interactions returned in a local until it writes.  The      *)
(* catalog does not change, so the get_item calls are part of the write step.*)

ConcUser == 1

\* a catalog of two events
ConcCatalog == <<Pool[1], Pool[3]>>

InitConc ==
    /\ catalog = ConcCatalog
    /\ popularity = [e \in EventIds(catalog) |-> 0]
    /\ interactions = <<>>
    /\ users = NoUsers
    /\ tieRank = [i \in 1..Len(catalog) |-> i]
    /\ last = InitLast
    /\ threads = IdleThreads

\* log_interaction(user, item, 'like' or 'bookmark') on thread t
ConcLog(t) ==
    /\ threads[t].pc = "idle"
    /\ Len(interactions) < MaxHist
    /\ \E k \in 1..Len(catalog), kind \in PositiveKinds :
          LET l == log_interaction(db, ConcUser, catalog[k].id, catalog[k].item_type, kind)
          IN /\ l.ok
             /\ SetDb(Db(l.interactions, l.popularity, l.users))
    /\ UNCHANGED <<catalog, tieRank, last, threads>>

\* train_user_preferences on thread t, up to the filter: with no positive item
\* the call returns False at once
TrainRead(t) ==
    /\ threads[t].pc = "idle"
    /\ PositiveItems(get_user_interactions(db, ConcUser)) # <<>>
    /\ threads' = [threads EXCEPT ![t] =
                      [pc |-> "read",
                       positive_items |-> PositiveItems(get_user_interactions(db, ConcUser))]]
    /\ UNCHANGED <<catalog, popularity, interactions, users, tieRank, last>>

\* the rest of train_user_preferences on thread t: the tag loop and the write
TrainWrite(t) ==
    /\ threads[t].pc = "read"
    /\ LET w == update_user_preferences(db, ConcUser,
                    LearnedPreferences(catalog, threads[t].positive_items,
                                       get_user_preferences(db, ConcUser)))
       IN SetDb(Db(w.interactions, w.popularity, w.users))
    /\ threads' = [threads EXCEPT ![t] = [pc |-> "idle", positive_items |-> <<>>]]
    /\ UNCHANGED <<catalog, tieRank, last>>

NextConc == \E t \in Threads : ConcLog(t) \/ TrainRead(t) \/ TrainWrite(t)

SpecConc == InitConc /\ [][NextConc]_vars

----------------------------------------------------------------------------
(* The hybrid score as the build computes it: numpy evaluates                *)
(*     hybrid_weight * semantic_scores + (1 - hybrid_weight) * keyword_scores *)
(* in binary floating point, every operation rounded to the nearest          *)
(* representable value, ties to even.  A float is kept as an integer number  *)
(* of units of 1/FloatScale; it has at most FloatBits significant bits, and  *)
(* 1/FloatScale is the smallest positive value of the format.                *)

RECURSIVE Pow2(_)
Pow2(n) == IF n = 0 THEN 1 ELSE 2 * Pow2(n - 1)

FloatScale == Pow2(FloatFrac)
FloatOne == FloatScale

RECURSIVE UlpOf(_, _, _)
\* the spacing of the floats around n/d: the least power of two u with
\* n/d < 2^FloatBits * u
UlpOf(n, d, u) == IF n < Pow2(FloatBits) * u * d THEN u ELSE UlpOf(n, d, 2 * u)

\* n/d rounded to the nearest integer, ties to even
RoundNearestEven(n, d) ==
    LET a == n \div d
        r == n % d
    IN IF 2 * r < d THEN a
       ELSE IF 2 * r > d THEN a + 1
       ELSE IF a % 2 = 0 THEN a ELSE a + 1

\* the float nearest to n/d
Fl(n, d) == LET u == UlpOf(n, d, 1) IN u * RoundNearestEven(n, d * u)

FlMul(a, b) == Fl(a * b, FloatScale)
FlAdd(a, b) == Fl(a + b, 1)
FlSub(a, b) == Fl(a - b, 1)

\* the floats of [0, 1]
UnitFloats == {v \in 0..FloatScale : Fl(v, 1) = v}

\* the weights and sub-scores drawn: 0 and the floats of [1/4, 1], far enough
\* from the smallest positive float that no product underflows
InputFloats == {v \in UnitFloats : v = 0 \/ 4 * v >= FloatScale}

\* hybrid_weight * semantic + (1 - hybrid_weight) * keyword, for one item
FloatHybridScore(hybrid_weight, semantic, keyword) ==
    FlAdd(FlMul(hybrid_weight, semantic),
          FlMul(FlSub(FloatOne, hybrid_weight), keyword))

InitFloat ==
    /\ catalog = <<>>
    /\ popularity = [e \in {} |-> 0]
    /\ interactions = <<>>
    /\ users = NoUsers
    /\ tieRank = <<>>
    /\ \E w \in InputFloats, s \in InputFloats, k \in InputFloats :
          last = [op |-> "scores", hybrid_weight |-> w, semantic |-> s, keyword |-> k]
    /\ threads = IdleThreads

\* lines 112-113 of recommend, on the scores of one item
HybridCall ==
    /\ last.op = "scores"
    /\ last' = [op |-> "hybrid_scores", hybrid_weight |-> last.hybrid_weight,
                semantic |-> last.semantic, keyword |-> last.keyword,
                hybrid |-> FloatHybridScore(last.hybrid_weight, last.semantic,
                                            last.keyword)]
    /\ UNCHANGED <<catalog, popularity, interactions, users, tieRank, threads>>

NextFloat == HybridCall

SpecFloat == InitFloat /\ [][NextFloat]_vars

----------------------------------------------------------------------------
(* Properties *)

RecDone == "rec" \in DOMAIN last
TrainDone == last.op = "train_user_preferences"

\* the preferred_tags a users table holds for a user, as a set
StoredPreferredTags(us, u) ==
    IF /\ u \in DOMAIN us
       /\ us[u].preferences # SqlNull
       /\ us[u].preferences.valid
       /\ "preferred_tags" \in DOMAIN us[u].preferences.doc
    THEN ListToSet(us[u].preferences.doc.preferred_tags)
    ELSE {}

\* the rows the call appended to the interactions table
NewInteractions ==
    SubSeq(interactions, Len(last.pre.interactions) + 1, Len(interactions))

\* the interactions of a user in a history, and the like/bookmark ones
HistoryOf(history, u) == {k \in 1..Len(history) : history[k].user_id = u}
PositivesOf(history, u) ==
    {k \in HistoryOf(history, u) : history[k].interaction_type \in {"like", "bookmark"}}

\* C1: after a recommend call for a user returns a non-empty result, the
\* interactions table holds exactly one new 'recommendation' row for (user_id,
\* item id, item type) per returned item, and no other new row.
C1_RecommendationsLogged ==
    (RecDone /\ last.rec.user_id # NoUser /\ last.rec.ret # <<>>) =>
        /\ \A k \in 1..Len(last.rec.ret) :
              Cardinality({m \in 1..Len(NewInteractions) :
                  NewInteractions[m] =
                      Interaction(last.rec.user_id, last.rec.ret[k].id,
                                  last.rec.ret[k].type, "recommendation")}) = 1
        /\ Len(NewInteractions) = Len(last.rec.ret)

\* train_user_preferences ran for user u in the step that led to record l
TrainRan(l, u) ==
    \/ l.op = "train_user_preferences" /\ l.train.user_id = u
    \/ l.op = "_handle_callback" /\ l.user_id = u /\ "train" \in DOMAIN l.out

\* the pref_reset button was handled for user u in the step that led to l
ResetRan(l, u) ==
    l.op = "_handle_callback" /\ l.user_id = u /\ l.data = <<"pref", "reset">>

\* C2 (as claimed): a user's stored preferred_tags changes only in a step in
\* which train_user_preferences ran for that user.
C2_OnlyTrainWrites ==
    [][\A u \in UserIds :
          StoredPreferredTags(users', u) # StoredPreferredTags(users, u)
              => TrainRan(last', u)]_vars

\* C2 (amended): a user's stored preferred_tags changes only in a step in
\* which train_user_preferences ran for that user, or in which the pref_reset
\* callback of that user overwrote the stored preferences with the empty mapping.
C2_OnlyTrainOrResetWrites ==
    [][\A u \in UserIds :
          StoredPreferredTags(users', u) # StoredPreferredTags(users, u)
              => \/ TrainRan(last', u)
                 \/ ResetRan(last', u) /\ StoredPreferredTags(users', u) = {}]_vars

C2_Witness ==
    \E u \in UserIds :
        /\ TrainRan(last, u)
        /\ StoredPreferredTags(users, u) # StoredPreferredTags(last.pre.users, u)

\* C3: train_user_preferences for a user whose history holds no like and no
\* bookmark (an empty history included) returns False and leaves the users
\* table as it was.
C3_NoPositivesNoChange ==
    (TrainDone /\ PositivesOf(last.pre.interactions, last.train.user_id) = {}) =>
        /\ last.train.ret = FALSE
        /\ users = last.pre.users

C3_Witness ==
    /\ TrainDone
    /\ PositivesOf(last.pre.interactions, last.train.user_id) = {}
    /\ HistoryOf(last.pre.interactions, last.train.user_id) # {}
    /\ StoredPreferredTags(last.pre.users, last.train.user_id) # {}
    /\ last.train.ret = FALSE

\* the trimmed comma-separated tags of a catalog row
RowTags(row) ==
    IF row.tags = None \/ row.tags = <<>> THEN {} ELSE TagSet(row.tags)

\* the union of the tags of the catalog rows the user's likes and bookmarks name
PositiveTagUnion(cat, history, u) ==
    UNION {RowTags(cat[i]) :
              i \in {j \in 1..Len(cat) :
                        \E k \in PositivesOf(history, u) :
                            /\ history[k].item_id = cat[j].id
                            /\ history[k].item_type = cat[j].item_type}}

\* C4: train_user_preferences for a user with at least one like or bookmark
\* returns True, and the stored preferred_tags is then the union of the trimmed
\* tags of the catalog rows those interactions resolve to: the prior profile is
\* overwritten, not merged.
C4_LearnsTagUnion ==
    (TrainDone /\ PositivesOf(last.pre.interactions, last.train.user_id) # {}) =>
        /\ last.train.ret = TRUE
        /\ StoredPreferredTags(users, last.train.user_id)
              = PositiveTagUnion(catalog, last.pre.interactions, last.train.user_id)

C4_Witness ==
    /\ TrainDone
    /\ last.train.ret = TRUE
    /\ StoredPreferredTags(users, last.train.user_id) # {}
    /\ \E t \in StoredPreferredTags(last.pre.users, last.train.user_id) :
          t \notin StoredPreferredTags(users, last.train.user_id)

\* a history without its 'recommendation' rows
WithoutRecommendations(history) ==
    SelectSeq(history, LAMBDA r : r.interaction_type # "recommendation")

\* C5: the 'recommendation' rows of a history do not influence learning: the
\* call returns the flag and leaves the preferred_tags it would on the history
\* with those rows removed, and it returns False when the user's history holds
\* nothing but 'recommendation' rows.
C5_RecommendationsIgnored ==
    TrainDone =>
        LET u == last.train.user_id
            r == train_user_preferences(
                     Db(WithoutRecommendations(last.pre.interactions),
                        last.pre.popularity, last.pre.users), catalog, u)
        IN /\ last.train.ret = r.ret
           /\ StoredPreferredTags(users, u) = StoredPreferredTags(r.db.users, u)
           /\ (\A k \in HistoryOf(last.pre.interactions, u) :
                  last.pre.interactions[k].interaction_type = "recommendation")
                 => last.train.ret = FALSE

C5_Witness ==
    /\ TrainDone
    /\ last.train.ret = TRUE
    /\ \E k \in HistoryOf(last.pre.interactions, last.train.user_id) :
          last.pre.interactions[k].interaction_type = "recommendation"
    /\ StoredPreferredTags(users, last.train.user_id) # {}

\* the combined score the specification gives row i of the catalog in the call
\* recorded in last: the pre-boost hybrid score, times (1 + 0.2 c) when the call
\* names a user whose stored preferred_tags share c > 0 tags with the row
CommonTags(i) ==
    TagSet(catalog[i].tags) \cap StoredPreferredTags(last.pre.users, last.rec.user_id)

PreBoost(i) ==
    last.rec.hybrid_weight * last.rec.semantic_scores[i]
        + (WeightScale - last.rec.hybrid_weight) * last.rec.keyword_scores[i]

ExpectedScore(i) ==
    IF last.rec.user_id # NoUser /\ CommonTags(i) # {}
    THEN PreBoost(i) * (BoostScale + Cardinality(CommonTags(i)))
    ELSE PreBoost(i) * BoostScale

\* the positions of catalog row i in the returned list
PositionsOf(i) ==
    {k \in 1..Len(last.rec.ret) :
        last.rec.ret[k].id = catalog[i].id /\ last.rec.ret[k].type = catalog[i].item_type}

Returned(i) == PositionsOf(i) # {}
Position(i) == CHOOSE k \in PositionsOf(i) : TRUE

RecReturned == RecDone /\ ~last.rec.raised

\* C6: a recommend call that does not fail returns exactly min(limit, n) items
\* of the n-item catalog, each a distinct catalog row.
C6_ReturnsMinLimitN ==
    RecReturned =>
        /\ Len(last.rec.ret) =
              (IF last.rec.limit < Len(catalog) THEN last.rec.limit ELSE Len(catalog))
        /\ \A k \in 1..Len(last.rec.ret) : \E i \in 1..Len(catalog) : k \in PositionsOf(i)
        /\ \A i \in 1..Len(catalog) : Cardinality(PositionsOf(i)) <= 1

C6_Witness ==
    /\ RecReturned
    /\ Len(catalog) >= 1
    /\ last.rec.limit > Len(catalog)
    /\ Len(last.rec.ret) = Len(catalog)

\* C7: the returned list is ordered by combined score, non-increasing, and no
\* row left out has a combined score above that of a returned row.
C7_SortedDescending ==
    RecReturned =>
        /\ \A k \in 1..(Len(last.rec.ret) - 1) :
              last.rec.ret[k].score >= last.rec.ret[k + 1].score
        /\ \A i \in 1..Len(catalog) : ~Returned(i) =>
              \A k \in 1..Len(last.rec.ret) : ExpectedScore(i) <= last.rec.ret[k].score

C7_Witness ==
    /\ RecReturned
    /\ Len(last.rec.ret) >= 1
    /\ \E i \in 1..Len(catalog) :
          ~Returned(i) /\ ExpectedScore(i) < last.rec.ret[Len(last.rec.ret)].score

\* C8: of two catalog rows with equal combined score the one earlier in the
\* catalog comes first in the result, also when only one of them is returned.
C8_StableTieBreak ==
    RecReturned =>
        \A i, j \in 1..Len(catalog) :
            (i < j /\ ExpectedScore(i) = ExpectedScore(j) /\ Returned(j)) =>
                Returned(i) /\ Position(i) < Position(j)

\* C9: of two returned rows with equal pre-boost hybrid score (of any sign), the
\* one sharing strictly more tags with the user's preferred_tags does not get
\* the lower combined score, so it is ranked at or above the other.
C9_BoostMonotone ==
    (RecReturned /\ last.rec.user_id # NoUser) =>
        \A i, j \in 1..Len(catalog) :
            (/\ Returned(i) /\ Returned(j)
             /\ PreBoost(i) = PreBoost(j)
             /\ Cardinality(CommonTags(i)) > Cardinality(CommonTags(j))) =>
                /\ last.rec.ret[Position(i)].score >= last.rec.ret[Position(j)].score
                /\ (last.rec.ret[Position(i)].score > last.rec.ret[Position(j)].score
                       => Position(i) < Position(j))

\* C10: the combined score of a returned item is its pre-boost hybrid score
\* times (1 + 0.2 c), c the number of tags its trimmed tag set shares with the
\* user's preferred_tags, when a user is given and c > 0, with no cap on c;
\* otherwise it is the pre-boost hybrid score.  (Scores in units of
\* 1/(WeightScale * BoostScale).)
C10_BoostFormula ==
    RecReturned =>
        \A k \in 1..Len(last.rec.ret) :
            LET rec == last.rec.ret[k]
                h == last.rec.hybrid_weight * rec.semantic_score
                        + (WeightScale - last.rec.hybrid_weight) * rec.keyword_score
                c == Cardinality(TagSet(rec.tags)
                        \cap StoredPreferredTags(last.pre.users, last.rec.user_id))
            IN rec.score = IF last.rec.user_id # NoUser /\ c > 0
                           THEN h * (BoostScale + c)
                           ELSE h * BoostScale

C10_Witness ==
    /\ RecReturned
    /\ \E k \in 1..Len(last.rec.ret) :
          /\ Cardinality(TagSet(last.rec.ret[k].tags)
                \cap StoredPreferredTags(last.pre.users, last.rec.user_id)) = 2
          /\ last.rec.user_id # NoUser
          /\ last.rec.ret[k].score # 0
          /\ last.rec.ret[k].score =
                (BoostScale + 2) * (last.rec.hybrid_weight * last.rec.ret[k].semantic_score
                    + (WeightScale - last.rec.hybrid_weight) * last.rec.ret[k].keyword_score)

Min(a, b) == IF a < b THEN a ELSE b
Max(a, b) == IF a > b THEN a ELSE b

HybridDone == last.op = "hybrid_scores"

\* C11: for hybrid_weight and both sub-scores in [0, 1], the pre-boost hybrid
\* score hybrid_weight * semantic + (1 - hybrid_weight) * keyword lies in
\* [min(semantic, keyword), max(semantic, keyword)].
C11_HybridWithinSubScores ==
    HybridDone =>
        /\ Min(last.semantic, last.keyword) <= last.hybrid
        /\ last.hybrid <= Max(last.semantic, last.keyword)

\* C12: recommend never lets an exception out: when the catalog is empty, or
\* when get_all_items, the embedding model, get_user_preferences, the tag loop
\* or a log_interaction call raises, it returns the empty list; on an empty
\* catalog it has read no profile and the interactions table is as before.
C12_NeverRaises ==
    RecDone /\ "fault" \in DOMAIN last.rec =>
        /\ ~last.rec.escaped
        /\ (catalog = <<>> \/ last.rec.raised) => last.rec.ret = <<>>
        /\ catalog = <<>> =>
              /\ ~last.rec.profile_read
              /\ interactions = last.pre.interactions

C12_Witness ==
    /\ RecDone
    /\ "fault" \in DOMAIN last.rec
    /\ last.rec.fault.at = "log_interaction"
    /\ last.rec.fault.k = 2
    /\ StoredPreferredTags(last.pre.users, last.rec.user_id) = {}
    /\ last.rec.raised
    /\ last.rec.ret = <<>>

\* C13: when the store fails during train_user_preferences (a read or the
\* profile write raises, or update_user_preferences returns False), the call
\* returns False; it returns True only if the stored preferred_tags is the
\* newly learned tag union.
C13_TrueOnlyIfPersisted ==
    (TrainDone /\ "fault" \in DOMAIN last.train) =>
        /\ last.train.store_failed => last.train.ret = FALSE
        /\ last.train.ret = TRUE =>
              StoredPreferredTags(users, last.train.user_id)
                  = PositiveTagUnion(catalog, last.pre.interactions, last.train.user_id)

\* a recommend call on a store that answers, in which the keyword model raised
KeywordFailed ==
    /\ RecDone
    /\ "fault" \in DOMAIN last.rec
    /\ last.rec.fault = NoFault
    /\ last.rec.keyword_failed
    /\ catalog # <<>>

\* C14: when the keyword-relevance inference fails, keyword_scores is the zero
\* vector with one entry per catalog item, and for a non-empty catalog the call
\* does not fail: it returns min(limit, n) items, ranked by
\* hybrid_weight * semantic times the tag boost.
C14_KeywordFailureDegrades ==
    KeywordFailed =>
        /\ last.rec.keyword_scores = Zeros(Len(catalog))
        /\ ~last.rec.raised
        /\ Len(last.rec.ret) =
              (IF last.rec.limit < Len(catalog) THEN last.rec.limit ELSE Len(catalog))
        /\ \A k \in 1..Len(last.rec.ret) :
              LET rec == last.rec.ret[k]
                  c == Cardinality(TagSet(rec.tags)
                          \cap StoredPreferredTags(last.pre.users, last.rec.user_id))
              IN /\ rec.keyword_score = 0
                 /\ rec.score = last.rec.hybrid_weight * rec.semantic_score
                                  * (IF last.rec.user_id # NoUser THEN BoostScale + c
                                     ELSE BoostScale)
        /\ \A k \in 1..(Len(last.rec.ret) - 1) :
              last.rec.ret[k].score >= last.rec.ret[k + 1].score

\* a recommend call on a store that answers, for a user with stored
\* preferred_tags, over a catalog with a row whose tags column is NULL
NullTagsCase ==
    /\ RecDone
    /\ "fault" \in DOMAIN last.rec
    /\ last.rec.fault = NoFault
    /\ last.rec.user_id # NoUser
    /\ StoredPreferredTags(last.pre.users, last.rec.user_id) # {}
    /\ \E i \in 1..Len(catalog) : catalog[i].tags = None

\* C17: a catalog row whose tags are NULL has the empty tag set, for recommend
\* and for train_user_preferences: a recommend call for a user with non-empty
\* preferred_tags over a catalog with such a row returns its min(limit, n)
\* ranked items, that row with its pre-boost score; a like of such a row adds
\* no tag to the learned preferred_tags.
C17_NullTagsAreEmptySet ==
    /\ NullTagsCase =>
          /\ ~last.rec.raised
          /\ Len(last.rec.ret) =
                (IF last.rec.limit < Len(catalog) THEN last.rec.limit ELSE Len(catalog))
          /\ \A k \in 1..Len(last.rec.ret) :
                last.rec.ret[k].tags = None =>
                    last.rec.ret[k].score =
                        BoostScale * (last.rec.hybrid_weight * last.rec.ret[k].semantic_score
                            + (WeightScale - last.rec.hybrid_weight)
                                  * last.rec.ret[k].keyword_score)
    /\ (TrainDone /\ last.train.ret = TRUE) =>
          StoredPreferredTags(users, last.train.user_id)
              = PositiveTagUnion(catalog, last.pre.interactions, last.train.user_id)

\* C15: a second recommend call with the catalog, query, stored profile, limit
\* and hybrid_weight of the first returns the same items in the same order with
\* the same three scores, whatever was appended to the interactions table
\* since the first call.
C15_Idempotent ==
    last.op = "recommend again" => last.rec.ret = last.first.ret

C15_Witness ==
    /\ last.op = "recommend again"
    /\ last.rec.ret # <<>>
    /\ last.rec.user_id # NoUser
    /\ StoredPreferredTags(users, last.rec.user_id) # {}
    /\ \E k \in 1..Len(interactions) : interactions[k].user_id = last.rec.user_id
    /\ \E k \in 1..Len(last.rec.ret) :
          last.rec.ret[k].score #
              BoostScale * (last.rec.hybrid_weight * last.rec.ret[k].semantic_score
                  + (WeightScale - last.rec.hybrid_weight) * last.rec.ret[k].keyword_score)

\* a recommend call on a store that answers, for a user whose stored
\* preferences text is not JSON
MalformedProfileCase ==
    /\ RecDone
    /\ "fault" \in DOMAIN last.rec
    /\ last.rec.fault = NoFault
    /\ last.rec.user_id \in DOMAIN last.pre.users
    /\ last.pre.users[last.rec.user_id].preferences = MalformedText

\* C16: when the stored preferences of the user cannot be parsed, recommend
\* applies no tag boost and returns what it returns for a user with no stored
\* preferences: not an exception, and for a non-empty catalog not the empty
\* list.
C16_MalformedProfileIsEmpty ==
    MalformedProfileCase =>
        /\ ~last.rec.raised
        /\ catalog # <<>> => last.rec.ret # <<>>
        /\ \A k \in 1..Len(last.rec.ret) :
              last.rec.ret[k].score =
                  BoostScale * (last.rec.hybrid_weight * last.rec.ret[k].semantic_score
                      + (WeightScale - last.rec.hybrid_weight)
                            * last.rec.ret[k].keyword_score)
        /\ last.rec.ret =
              recommend(Db(last.pre.interactions, last.pre.popularity, NoUsers),
                        catalog, tieRank, last.rec.query, last.rec.semantic_scores,
                        [fails |-> last.rec.keyword_failed,
                         scores |-> last.rec.keyword_scores],
                        last.rec.user_id, last.rec.limit, last.rec.hybrid_weight).ret

C16_Witness ==
    /\ MalformedProfileCase
    /\ Len(last.rec.ret) = 2
    /\ last.rec.ret[1].score # 0
    /\ \E k \in 1..2 : TagSet(last.rec.ret[k].tags) = {<<"a">>, <<"b">>}

\* C18: with concurrent log_interaction(like/bookmark) and
\* train_user_preferences calls of one user on a fixed catalog, every store call
\* atomic, each write of the profile stores a superset of the preferred_tags
\* stored before it (no stale overwrite, no lost update).
C18_NoLostUpdate ==
    [][StoredPreferredTags(users, ConcUser)
           \subseteq StoredPreferredTags(users', ConcUser)]_vars

ButtonRows(data) ==
    {i \in 1..Len(catalog) :
        /\ Len(data) = 3
        /\ IsDigits(data[3])
        /\ catalog[i].id = ParseInt(data[3])
        /\ catalog[i].item_type = data[2]}

FeedbackHandled ==
    /\ last.op = "_handle_callback"
    /\ last.data[1] \in FeedbackActions
    /\ ~last.out.raised

\* C20: the feedback callback logs the interaction before it retrains: after a
\* like or bookmark callback for a row of the catalog is handled without error,
\* the user's stored preferred_tags holds every tag of that row; after a
\* dislike callback it is the tag union over the user's like and bookmark rows.
C20_FeedbackThenTrain ==
    FeedbackHandled =>
        /\ last.data[1] \in {"like", "bookmark"} =>
              \A i \in ButtonRows(last.data) :
                  RowTags(catalog[i]) \subseteq StoredPreferredTags(users, last.user_id)
        /\ last.data[1] = "dislike" =>
              StoredPreferredTags(users, last.user_id)
                  = PositiveTagUnion(catalog, interactions, last.user_id)

====
